---- MODULE Spec2Model ----
(***************************************************************************)
(* Artwork backend: upload / list / delete over a record store (the        *)
(* sqlite table `artwork`) and an object store (an S3 bucket in the cloud  *)
(* variant src/index.js, the directory uploads/ in the local-disk variant  *)
(* src/unnamed/part_000).  A request is a chain of callbacks; every        *)
(* callback is one atomic step of the Node event loop, and the steps of    *)
(* different requests interleave freely.                                   *)
(***************************************************************************)
EXTENDS Integers, Sequences, FiniteSets, TLC

\* ------------------------------------------------------------------ bounds
MaxReq     == 3  \* requests that arrive in one behaviour of Spec
MaxGateReq == 2  \* requests that arrive in one behaviour of GateSpec
MaxClock   == 1  \* last reading of the wall clock (it starts at 0)

\* ------------------------------------------------------------ input values
Variants  == {"cloud", "local"}
Kinds     == {"upload", "list", "delete"}
AUTH_TOKEN == "s3cret"
NoHeader  == <<>>
Bearer(t) == <<"Bearer ", t>>
\* no Authorization header, the right one, and the bare token without "Bearer "
Headers   == {NoHeader, Bearer(AUTH_TOKEN), <<AUTH_TOKEN>>}
NoFile    == ""
FileNames == {"cat.png"}
Files     == FileNames \cup {NoFile}
\* req.body's {title, description}, stored and listed as given
Metas     == {<<"Cat", "a cat">>}
\* /api/artworks/:id: the ids of the first two rows ever inserted
Targets   == {1, 2}
NoKey     == <<>>
Absent    == <<>>

VARIABLES
    variant,     \* which of the two programs runs
    production,  \* process.env.NODE_ENV === 'production'
    now,         \* the wall clock: Date.now() and CURRENT_TIMESTAMP read it
    nextUuid,    \* the tokens uuidv4() has handed out so far
    nextId,      \* sqlite_sequence of table artwork (AUTOINCREMENT)
    tieOrder,    \* how sqlite orders rows of equal uploaded_at ("unset" until seen)
    rows,        \* table artwork: a set of rows, keyed by id
    blobs,       \* the object store: a set of <<key, body>>, one per key
    req          \* the requests in order of arrival, with their closures

vars == <<variant, production, tieOrder, now, nextUuid, nextId, rows, blobs, req>>

\* --------------------------------------------------------------- helpers
Reqs == 1..Len(req)

RowIds == {x.id : x \in rows}

RowOf(id) == CHOOSE x \in rows : x.id = id

BlobKeys == {b[1] : b \in blobs}

\* writing `body` under `key` replaces whatever was stored under that key
PutBlob(store, key, body) == {b \in store : b[1] # key} \cup {<<key, body>>}

RemoveBlob(store, key) == {b \in store : b[1] # key}

NewReq(kind, hdr, file, meta, target) ==
    [kind |-> kind, auth |-> hdr, file |-> file, meta |-> meta,
     target |-> target, pc |-> "new", status |-> 0, error |-> "",
     key |-> NoKey, put |-> "none", blobDel |-> "none", id |-> 0,
     result |-> <<>>, sent |-> 0]

\* res.status(code).json({error: msg}): the request is answered; `sent`
\* counts the responses written for the request
Fail(q, code, msg) ==
    [q EXCEPT !.pc = "done", !.status = code, !.error = msg, !.sent = @ + 1]

\* --------------------------------------------------------------- the gate
\* mutant: the token is compared without the "Bearer " prefix
checkAuth_TokenOnly(hdr) ==
    IF ~production THEN TRUE
    ELSE Len(hdr) > 0 /\ hdr[Len(hdr)] = AUTH_TOKEN

checkAuth(hdr) ==
    IF ~production THEN TRUE
    ELSE hdr = Bearer(AUTH_TOKEN)

\* the routes that name checkAuth as middleware
Gated(kind) == kind \in {"upload", "delete"}

FirstPc(kind) ==
    CASE kind = "upload" -> "multer"
      [] kind = "list"   -> "list"
      [] kind = "delete" -> "lookup"

\* mutant: upload.single('image') is named before checkAuth, so that the
\* disk storage has written the file when the gate refuses the request
Arrive_MulterFirst(kind, hdr, file, meta, target) ==
    /\ Len(req) < MaxReq
    /\ LET q == NewReq(kind, hdr, file, meta, target)
           written == kind = "upload" /\ variant = "local" /\ file # NoFile
       IN /\ req' = Append(req,
                      IF Gated(kind) /\ ~checkAuth(hdr)
                      THEN Fail(q, 403, "Unauthorized")
                      ELSE [q EXCEPT !.pc = FirstPc(kind)])
          /\ blobs' = IF written
                      THEN PutBlob(blobs, <<"ts", now, file>>, Len(req) + 1)
                      ELSE blobs
    /\ UNCHANGED <<variant, production, tieOrder, now, nextUuid, nextId, rows>>

\* A request arrives: express runs the route's middleware chain up to the
\* first asynchronous call (multer's body parser, db.all, db.get).
Arrive(kind, hdr, file, meta, target) ==
    /\ Len(req) < MaxReq
    /\ LET q == NewReq(kind, hdr, file, meta, target) IN
       req' = Append(req,
                IF Gated(kind) /\ ~checkAuth(hdr)
                THEN Fail(q, 403, "Unauthorized")
                ELSE [q EXCEPT !.pc = FirstPc(kind)])
    /\ UNCHANGED <<variant, production, tieOrder, now, nextUuid, nextId, rows, blobs>>

\* ------------------------------------------------------------ object keys
\* `${uuidv4()}-${file.originalname}`; n is a token uuidv4() has not
\* handed out before
UuidKey(n, name) == <<"uuid", n, name>>

\* `${Date.now()}-${file.originalname}`
DiskFilename(t, name) == <<"ts", t, name>>

\* ----------------------------------------------------------------- upload
\* mutant: the handler without its `if (!file) return ...400` line
UploadHandlerCloud_NoFileCheck(r) ==
    /\ variant = "cloud"
    /\ req[r].pc = "multer"
    /\ req' = [req EXCEPT ![r] =
                [@ EXCEPT !.pc = "put", !.key = UuidKey(nextUuid, req[r].file)]]
    /\ nextUuid' = nextUuid + 1
    /\ UNCHANGED <<variant, production, tieOrder, now, nextId, rows, blobs>>

\* cloud: multer.memoryStorage() has parsed the body; the handler runs.
UploadHandlerCloud(r) ==
    /\ variant = "cloud"
    /\ req[r].pc = "multer"
    /\ IF req[r].file = NoFile
       THEN /\ req' = [req EXCEPT ![r] = Fail(@, 400, "Image file is required.")]
            /\ UNCHANGED nextUuid
       ELSE /\ req' = [req EXCEPT ![r] =
                         [@ EXCEPT !.pc = "put",
                                   !.key = UuidKey(nextUuid, req[r].file)]]
            /\ nextUuid' = nextUuid + 1
    /\ UNCHANGED <<variant, production, tieOrder, now, nextId, rows, blobs>>

\* mutant: the `if (err)` branch answers 500 but does not return
S3UploadCallback_NoReturn(r) ==
    /\ variant = "cloud"
    /\ req[r].pc = "put"
    /\ \E ok \in BOOLEAN :
         /\ blobs' = IF ok THEN PutBlob(blobs, req[r].key, r) ELSE blobs
         /\ req' = [req EXCEPT ![r] =
                      [@ EXCEPT !.pc = "insert",
                                !.put = IF ok THEN "ok" ELSE "fail",
                                !.status = IF ok THEN 0 ELSE 500,
                                !.sent = IF ok THEN @ ELSE @ + 1,
                                !.error = IF ok THEN "" ELSE "s3 error"]]
    /\ UNCHANGED <<variant, production, tieOrder, now, nextUuid, nextId, rows>>

\* cloud: s3.upload completes and its callback runs.
S3UploadCallback(r) ==
    /\ variant = "cloud"
    /\ req[r].pc = "put"
    /\ \E ok \in BOOLEAN :
         IF ok
         THEN /\ blobs' = PutBlob(blobs, req[r].key, r)
              /\ req' = [req EXCEPT ![r] = [@ EXCEPT !.pc = "insert", !.put = "ok"]]
         ELSE /\ blobs' = blobs
              /\ req' = [req EXCEPT ![r] =
                           Fail([@ EXCEPT !.put = "fail"], 500, "s3 error")]
    /\ UNCHANGED <<variant, production, tieOrder, now, nextUuid, nextId, rows>>

\* local: multer.diskStorage names the file and writes it; when the write
\* fails multer passes the error on and express answers 500 without calling
\* the handler; otherwise the handler runs and issues the INSERT.
UploadHandlerLocal(r) ==
    /\ variant = "local"
    /\ req[r].pc = "multer"
    /\ IF req[r].file = NoFile
       THEN /\ req' = [req EXCEPT ![r] = Fail(@, 400, "Image file is required.")]
            /\ blobs' = blobs
       ELSE LET k == DiskFilename(now, req[r].file) IN
            \E ok \in BOOLEAN :
              IF ok
              THEN /\ blobs' = PutBlob(blobs, k, r)
                   /\ req' = [req EXCEPT ![r] =
                                [@ EXCEPT !.pc = "insert", !.put = "ok", !.key = k]]
              ELSE /\ blobs' = blobs
                   /\ req' = [req EXCEPT ![r] =
                                Fail([@ EXCEPT !.put = "fail", !.key = k],
                                     500, "disk error")]
    /\ UNCHANGED <<variant, production, tieOrder, now, nextUuid, nextId, rows>>

\* mutant: id INTEGER PRIMARY KEY without AUTOINCREMENT (largest rowid + 1,
\* so that the id of a deleted last row is given out again)
NewRow_ReuseRowid(q) ==
    [id |-> IF rows = {} THEN 1
            ELSE 1 + CHOOSE m \in RowIds : \A i \in RowIds : i <= m,
     meta |-> q.meta, filename |-> q.key, uploaded_at |-> now]

\* the INSERT statement's row: id from AUTOINCREMENT, uploaded_at from
\* DEFAULT CURRENT_TIMESTAMP
NewRow(q) ==
    [id |-> nextId, meta |-> q.meta, filename |-> q.key, uploaded_at |-> now]

\* db.run(INSERT ...) completes and its callback runs.
InsertCallback(r) ==
    /\ req[r].pc = "insert"
    /\ \E ok \in BOOLEAN :
         IF ok
         THEN /\ rows' = rows \cup {NewRow(req[r])}
              /\ nextId' = nextId + 1
              /\ req' = [req EXCEPT ![r] =
                           [@ EXCEPT !.pc = "done", !.status = 200, !.id = nextId,
                                     !.sent = @ + 1]]
         ELSE /\ UNCHANGED <<rows, nextId>>
              /\ req' = [req EXCEPT ![r] = Fail(@, 500, "db error")]
    /\ UNCHANGED <<variant, production, tieOrder, now, nextUuid, blobs>>

\* ---------------------------------------------------------------- listing
\* https://${BUCKET_NAME}.s3.${AWS_REGION}.amazonaws.com/${row.filename}
Resolve(k) == <<"https://", "bucket", ".s3.", "region", ".amazonaws.com/", k>>

\* cloud: rows.map(row => ({id, title, description, url, uploaded_at}))
WithUrl(row) ==
    [id |-> row.id, meta |-> row.meta, url |-> Resolve(row.filename),
     filename |-> Absent, uploaded_at |-> row.uploaded_at]

\* local: res.json(rows), the rows as stored (no url field)
RawRow(row) ==
    [id |-> row.id, meta |-> row.meta, url |-> Absent,
     filename |-> row.filename, uploaded_at |-> row.uploaded_at]

\* mutant: uploaded_at is the time of the listing, not of the insertion
Project_StampNow(row) ==
    [(IF variant = "cloud" THEN WithUrl(row) ELSE RawRow(row))
        EXCEPT !.uploaded_at = now]

Project(row) == IF variant = "cloud" THEN WithUrl(row) ELSE RawRow(row)

\* mutant: ORDER BY uploaded_at ASC
OrderedDesc_Asc(s) ==
    \A i \in 1..Len(s) : \A j \in 1..Len(s) :
        i < j => s[i].uploaded_at <= s[j].uploaded_at

\* ORDER BY uploaded_at DESC
OrderedDesc(s) ==
    \A i \in 1..Len(s) : \A j \in 1..Len(s) :
        i < j => s[i].uploaded_at >= s[j].uploaded_at

\* SELECT * FROM artwork ORDER BY uploaded_at DESC: every row once, in any
\* order the ORDER BY allows (rows of equal uploaded_at in either order)
SelectAll(tbl) ==
    {s \in [1..Cardinality(tbl) -> tbl] :
        /\ \A x \in tbl : \E i \in 1..Cardinality(tbl) : s[i] = x
        /\ OrderedDesc(s)}

\* The order sqlite gives to rows of equal uploaded_at is not specified, but
\* it is the same every time the statement runs on the same table: by rowid,
\* or by rowid reversed.
TieOrders == {"rowid", "reverse"}

HasTies(tbl) ==
    \E x \in tbl : \E y \in tbl : x.id # y.id /\ x.uploaded_at = y.uploaded_at

TieOrdered(s, order) ==
    \A i \in 1..Len(s) : \A j \in 1..Len(s) :
        (i < j /\ s[i].uploaded_at = s[j].uploaded_at) =>
           IF order = "rowid" THEN s[i].id < s[j].id ELSE s[i].id > s[j].id

\* db.all completes and its callback runs.
ListCallback(r) ==
    /\ req[r].pc = "list"
    /\ \E ok \in BOOLEAN :
         IF ok
         THEN \E order \in (IF tieOrder = "unset" THEN TieOrders ELSE {tieOrder}) :
              \E s \in SelectAll(rows) :
                /\ TieOrdered(s, order)
                /\ tieOrder' = IF HasTies(rows) THEN order ELSE tieOrder
                /\ req' = [req EXCEPT ![r] =
                          [@ EXCEPT !.pc = "done", !.status = 200, !.sent = @ + 1,
                                    !.result = [i \in 1..Len(s) |-> Project(s[i])]]]
         ELSE /\ tieOrder' = tieOrder
              /\ req' = [req EXCEPT ![r] = Fail(@, 500, "db error")]
    /\ UNCHANGED <<variant, production, now, nextUuid, nextId, rows, blobs>>

\* ----------------------------------------------------------------- delete
\* what the lookup callback does once a row was found
AfterLookup(q, filename) ==
    IF variant = "cloud"
    THEN \* s3.deleteObject issued; the DELETE waits for its callback
         [q EXCEPT !.pc = "blobdel", !.key = filename]
    ELSE \* fs.unlink and db.run(DELETE) both issued, neither awaited
         [q EXCEPT !.pc = "rowdel", !.key = filename, !.blobDel = "pending"]

\* mutant: the callback without its `if (!row) return ...404` line
LookupCallback_NoNotFound(r) ==
    /\ req[r].pc = "lookup"
    /\ \E ok \in BOOLEAN :
         req' = [req EXCEPT ![r] =
                   IF ~ok THEN Fail(@, 500, "db error")
                   ELSE AfterLookup(@, IF req[r].target \in RowIds
                                       THEN RowOf(req[r].target).filename
                                       ELSE NoKey)]
    /\ UNCHANGED <<variant, production, tieOrder, now, nextUuid, nextId, rows, blobs>>

\* db.get(SELECT filename ... WHERE id = ?) completes and its callback runs.
LookupCallback(r) ==
    /\ req[r].pc = "lookup"
    /\ \E ok \in BOOLEAN :
         req' = [req EXCEPT ![r] =
                   IF ~ok THEN Fail(@, 500, "db error")
                   ELSE IF req[r].target \notin RowIds
                        THEN Fail(@, 404, "Artwork not found.")
                        ELSE AfterLookup(@, RowOf(req[r].target).filename)]
    /\ UNCHANGED <<variant, production, tieOrder, now, nextUuid, nextId, rows, blobs>>

\* mutant: a failed s3.deleteObject answers 500 and gives up
S3DeleteCallback_AbortOnError(r) ==
    /\ variant = "cloud"
    /\ req[r].pc = "blobdel"
    /\ \E ok \in BOOLEAN :
         /\ blobs' = IF ok THEN RemoveBlob(blobs, req[r].key) ELSE blobs
         /\ req' = [req EXCEPT ![r] =
                      IF ok THEN [@ EXCEPT !.pc = "rowdel", !.blobDel = "ok"]
                      ELSE Fail([@ EXCEPT !.blobDel = "fail"], 500, "s3 error")]
    /\ UNCHANGED <<variant, production, tieOrder, now, nextUuid, nextId, rows>>

\* cloud: s3.deleteObject completes (err or not) and its callback issues the
\* DELETE either way.
S3DeleteCallback(r) ==
    /\ variant = "cloud"
    /\ req[r].pc = "blobdel"
    /\ \E ok \in BOOLEAN :
         /\ blobs' = IF ok THEN RemoveBlob(blobs, req[r].key) ELSE blobs
         /\ req' = [req EXCEPT ![r] =
                      [@ EXCEPT !.pc = "rowdel",
                                !.blobDel = IF ok THEN "ok" ELSE "fail"]]
    /\ UNCHANGED <<variant, production, tieOrder, now, nextUuid, nextId, rows>>

\* local: fs.unlink completes; its callback only logs.  A missing file is
\* an error (ENOENT).
UnlinkCallback(r) ==
    /\ variant = "local"
    /\ req[r].blobDel = "pending"
    /\ \E ok \in BOOLEAN :
         LET done == ok /\ req[r].key \in BlobKeys IN
         /\ blobs' = IF done THEN RemoveBlob(blobs, req[r].key) ELSE blobs
         /\ req' = [req EXCEPT ![r] =
                      [@ EXCEPT !.blobDel = IF done THEN "ok" ELSE "fail"]]
    /\ UNCHANGED <<variant, production, tieOrder, now, nextUuid, nextId, rows>>

\* mutant: the DELETE matches no row
DeleteById_NoMatch(tbl, id) == tbl

\* DELETE FROM artwork WHERE id = ?
DeleteById(tbl, id) == {x \in tbl : x.id # id}

\* mutant: the `if (deleteErr)` branch answers 500 but does not return
RowDeleteCallback_NoReturn(r) ==
    /\ req[r].pc = "rowdel"
    /\ \E ok \in BOOLEAN :
         /\ rows' = IF ok THEN DeleteById(rows, req[r].target) ELSE rows
         /\ req' = [req EXCEPT ![r] =
                      [@ EXCEPT !.pc = "done", !.status = 200,
                                !.sent = IF ok THEN @ + 1 ELSE @ + 2]]
    /\ UNCHANGED <<variant, production, tieOrder, now, nextUuid, nextId, blobs>>

\* db.run(DELETE ...) completes and its callback runs.
RowDeleteCallback(r) ==
    /\ req[r].pc = "rowdel"
    /\ \E ok \in BOOLEAN :
         IF ok
         THEN /\ rows' = DeleteById(rows, req[r].target)
              /\ req' = [req EXCEPT ![r] =
                           [@ EXCEPT !.pc = "done", !.status = 200, !.sent = @ + 1]]
         ELSE /\ rows' = rows
              /\ req' = [req EXCEPT ![r] = Fail(@, 500, "db error")]
    /\ UNCHANGED <<variant, production, tieOrder, now, nextUuid, nextId, blobs>>

\* ------------------------------------------------------------------ clock
\* Time passes.  Date.now() (part_000) and CURRENT_TIMESTAMP (sqlite) are
\* readings of this one clock: two reads without a Tick between them agree.
Tick ==
    /\ now < MaxClock
    /\ now' = now + 1
    /\ UNCHANGED <<variant, production, tieOrder, nextUuid, nextId, rows, blobs, req>>

\* ---------------------------------------------------------- specification
\* the stores are empty and no request has arrived
Boot ==
    /\ variant \in Variants
    /\ tieOrder = "unset"
    /\ now = 0
    /\ nextUuid = 1
    /\ nextId = 1
    /\ rows = {}
    /\ blobs = {}
    /\ req = <<>>

\* the requests of clients that send one of the headers H
Arrivals(H) ==
    \/ \E hdr \in H, file \in Files, meta \in Metas :
         Arrive("upload", hdr, file, meta, 0)
    \/ Arrive("list", NoHeader, NoFile, <<>>, 0)
    \/ \E hdr \in H, target \in Targets :
         Arrive("delete", hdr, NoFile, <<>>, target)

\* the callbacks the event loop can run next
Callbacks ==
    \/ \E r \in Reqs : UploadHandlerCloud(r)
    \/ \E r \in Reqs : S3UploadCallback(r)
    \/ \E r \in Reqs : UploadHandlerLocal(r)
    \/ \E r \in Reqs : InsertCallback(r)
    \/ \E r \in Reqs : ListCallback(r)
    \/ \E r \in Reqs : LookupCallback(r)
    \/ \E r \in Reqs : S3DeleteCallback(r)
    \/ \E r \in Reqs : UnlinkCallback(r)
    \/ \E r \in Reqs : RowDeleteCallback(r)

\* Spec: the deployed server (NODE_ENV=production) and clients that hold
\* the token, so that every request reaches its handler.
Init == production = TRUE /\ Boot

Next ==
    \/ Arrivals({Bearer(AUTH_TOKEN)})
    \/ Callbacks
    \/ Tick

Spec == Init /\ [][Next]_vars

\* GateSpec: either NODE_ENV, and clients that send any of Headers.
GateInit == production \in BOOLEAN /\ Boot

GateNext ==
    \/ Len(req) < MaxGateReq /\ Arrivals(Headers)
    \/ Callbacks
    \/ Tick

GateSpec == GateInit /\ [][GateNext]_vars

\* ------------------------------------------------------------------ claims
\* request r has run one of its callbacks in this step
Stepped(r) == req'[r] # req[r]

Uploads == {r \in Reqs : req[r].kind = "upload"}
Lists   == {r \in Reqs : req[r].kind = "list"}
Deletes == {r \in Reqs : req[r].kind = "delete"}

\* C1: an upload whose object-store put fails is answered 500, is finished
\* and has no id, and no step it takes (the failing one included) changes
\* the record store, whatever the other requests do in between.
C1_PutFailureWritesNoRow ==
    [][\A r \in Uploads :
          req'[r].put = "fail" =>
            /\ req'[r].pc = "done"
            /\ req'[r].status = 500
            /\ req'[r].id = 0
            /\ Stepped(r) => rows' = rows /\ nextId' = nextId]_vars

\* a put has failed while another upload has inserted its row
C1_Witness ==
    \E r \in Uploads :
        /\ req[r].put = "fail" /\ req[r].status = 500
        /\ \E o \in Uploads : o # r /\ req[o].status = 200 /\ rows # {}

\* C2: whenever an upload's INSERT adds its row, a blob is stored under the
\* row's object key.
C2_BlobExistsAtInsert ==
    [][\A r \in Uploads :
          (req[r].pc = "insert" /\ req'[r].status = 200) =>
             \A x \in rows' \ rows : x.filename \in BlobKeys]_vars

\* C3: a delete that has found its row goes on to the DELETE statement
\* whatever the object-store delete answers, and the DELETE statement, when
\* it does not itself fail, answers 200, leaves no row with that id and,
\* the row being there, takes exactly that one row away.
C3_DeleteRemovesRow ==
    [][\A r \in Deletes :
          /\ (req[r].pc = "blobdel" /\ Stepped(r)) =>
                req'[r].pc = "rowdel" /\ req'[r].status = 0
          /\ (req[r].blobDel = "pending" /\ req'[r].blobDel # "pending") =>
                req'[r].pc = req[r].pc /\ req'[r].status = req[r].status
          /\ (req[r].pc = "rowdel" /\ req'[r].pc = "done" /\ req'[r].status # 500) =>
                /\ req'[r].status = 200
                /\ req[r].target \notin {x.id : x \in rows'}
                /\ rows' = {x \in rows : x.id # req[r].target}
                /\ req[r].target \in RowIds =>
                     Cardinality(rows') = Cardinality(rows) - 1]_vars

\* a delete whose blob delete failed was answered 200 and its row is gone
C3_Witness ==
    \E r \in Deletes :
        /\ req[r].blobDel = "fail" /\ req[r].status = 200
        /\ req[r].target \notin RowIds

\* C4: a delete whose lookup finds no row for its id is answered 404 at
\* once: it is finished, it has asked for no blob delete, and the step
\* leaves both stores as they were.  (A lookup statement that fails is the
\* 500 answer, not this case.)
C4_DeleteUnknownId ==
    [][\A r \in Deletes :
          /\ (req[r].pc = "lookup" /\ Stepped(r) /\ req[r].target \notin RowIds
                /\ req'[r].status # 500) =>
                /\ req'[r].pc = "done" /\ req'[r].status = 404
                /\ req'[r].blobDel = "none" /\ req'[r].key = NoKey
                /\ rows' = rows /\ blobs' = blobs /\ nextId' = nextId
          /\ req[r].status = 404 => req'[r] = req[r]]_vars

\* a delete of an id without a row was answered 404 while a row exists
C4_Witness ==
    \E r \in Deletes :
        req[r].status = 404 /\ req[r].target \notin RowIds /\ rows # {}

\* C5: an upload without a file part is answered 400 by the one step it
\* takes; it never puts a blob, never gets an id, and leaves both stores as
\* they were.
C5_NoFileIs400 ==
    [][\A r \in Uploads :
          (req[r].file = NoFile /\ Stepped(r)) =>
             /\ req[r].pc = "multer"
             /\ req'[r].pc = "done" /\ req'[r].status = 400
             /\ req'[r].put = "none" /\ req'[r].id = 0 /\ req'[r].key = NoKey
             /\ rows' = rows /\ blobs' = blobs /\ nextId' = nextId]_vars

\* an upload without a file was answered 400 after another upload's row
\* was inserted
C5_Witness ==
    \E r \in Uploads :
        req[r].file = NoFile /\ req[r].status = 400 /\ rows # {}

\* C6: a listing that returns after an upload was answered with id i, the
\* row i still being there, has an entry with id i whose url is the
\* resolved object key of that upload.
C6_ListingResolvesUploadKey ==
    [][\A l \in Lists :
          (req[l].pc = "list" /\ req'[l].status = 200) =>
             \A u \in Uploads :
                (req[u].status = 200 /\ req[u].id \in RowIds) =>
                   \E i \in 1..Len(req'[l].result) :
                      /\ req'[l].result[i].id = req[u].id
                      /\ req'[l].result[i].url = Resolve(req[u].key)]_vars

\* C7: a request is answered 403 exactly when its route is a gated one
\* (upload, delete), NODE_ENV is "production" and its Authorization header
\* is not exactly "Bearer <token>"; every other request enters its handler.
C7_AccessGate ==
    \A r \in Reqs :
        /\ req[r].status = 403 <=>
              /\ req[r].kind \in {"upload", "delete"}
              /\ production
              /\ req[r].auth # <<"Bearer ", AUTH_TOKEN>>
        /\ req[r].status = 403 => req[r].pc = "done" /\ req[r].error = "Unauthorized"

\* in production the bare token was refused on a gated route and a listing
\* without a header was answered
C7_Witness ==
    /\ production
    /\ \E r \in Reqs : req[r].kind = "delete" /\ req[r].auth = <<AUTH_TOKEN>>
                       /\ req[r].status = 403
    /\ \E r \in Lists : req[r].auth = NoHeader /\ req[r].status = 200

\* without the flag a gated request without a header was served
C7_BypassWitness ==
    /\ ~production
    /\ \E r \in Uploads : req[r].auth = NoHeader /\ req[r].status = 200

\* C8 as stated: of two deletes of the same id at most one is answered
\* with success.
C8_AtMostOneSuccess ==
    \A a \in Deletes : \A b \in Deletes :
        (a # b /\ req[a].target = req[b].target) =>
           ~(req[a].status = 200 /\ req[b].status = 200)

\* C8 amended: a delete whose lookup runs after another delete of the same
\* id was answered with success finds no row and is answered 404 (its
\* lookup statement not failing); two deletes whose lookups both ran before
\* either DELETE are both answered with success, and then the later DELETE
\* takes no row away.
C8_LaterLookupIs404 ==
    [][\A r \in Deletes :
          LET won == \E o \in Deletes :
                        /\ o # r /\ req[o].target = req[r].target
                        /\ req[o].status = 200
          IN /\ (req[r].pc = "lookup" /\ Stepped(r) /\ won /\ req'[r].status # 500)
                   => req'[r].status = 404
             /\ (req[r].pc = "rowdel" /\ req'[r].status = 200 /\ won)
                   => rows' = rows]_vars

\* two deletes of the same id were both answered with success
C8_Witness ==
    \E a \in Deletes : \E b \in Deletes :
        /\ a # b /\ req[a].target = req[b].target
        /\ req[a].status = 200 /\ req[b].status = 200

\* one delete was answered with success and a later one of the same id 404
C8_Witness404 ==
    \E a \in Deletes : \E b \in Deletes :
        /\ a < b /\ req[a].target = req[b].target
        /\ req[a].status = 200 /\ req[b].status = 404

\* C9: two different uploads never have the same object key.
C9_UniqueKeys ==
    \A a \in Uploads : \A b \in Uploads :
        (a # b /\ req[a].key # NoKey /\ req[b].key # NoKey) =>
           req[a].key # req[b].key

\* C10: a listing that returns holds every row of the table once and no
\* other entry, newest first; when the rows' timestamps are all different
\* that is the reverse of the order of insertion (the ids fall).
C10_ListingOrder ==
    [][\A l \in Lists :
          (req[l].pc = "list" /\ req'[l].status = 200) =>
             LET res == req'[l].result IN
             /\ Len(res) = Cardinality(rows)
             /\ \A x \in rows : \E i \in 1..Len(res) :
                   res[i].id = x.id /\ res[i].uploaded_at = x.uploaded_at
                   /\ res[i].meta = x.meta
             /\ \A i \in 1..Len(res) : \A j \in 1..Len(res) :
                   i < j => res[i].uploaded_at >= res[j].uploaded_at
             /\ (\A x \in rows : \A y \in rows :
                    x.id # y.id => x.uploaded_at # y.uploaded_at)
                  => \A i \in 1..Len(res) : \A j \in 1..Len(res) :
                        i < j => res[i].id > res[j].id]_vars

\* a listing returned two rows of different timestamps, the later first
C10_Witness ==
    \E l \in Lists :
        /\ req[l].status = 200 /\ Len(req[l].result) = 2
        /\ req[l].result[1].uploaded_at > req[l].result[2].uploaded_at
        /\ req[l].result[1].id = 2 /\ req[l].result[2].id = 1

\* C11: the step in which a listing returns changes neither store, and
\* its result is the result of every earlier listing that was taken of the
\* same table (the rows of the same ids: rows never change and ids are
\* never given twice, so no upload or delete has completed in between).
C11_ListingReadOnlyIdempotent ==
    [][\A l \in Lists :
          (req[l].pc = "list" /\ Stepped(l)) =>
             /\ rows' = rows /\ blobs' = blobs
             /\ nextId' = nextId /\ nextUuid' = nextUuid
             /\ req'[l].status = 200 =>
                  \A o \in Lists :
                     (/\ req[o].status = 200
                      /\ {req[o].result[i].id : i \in 1..Len(req[o].result)} = RowIds)
                     => req'[l].result = req[o].result]_vars

\* two listings have returned the same row
C11_Witness ==
    \E a \in Lists : \E b \in Lists :
        /\ a # b /\ req[a].status = 200 /\ req[b].status = 200
        /\ Len(req[a].result) = 1 /\ req[a].result = req[b].result
        /\ rows # {}

\* the names of the fields of one entry of a listing
EntryFields(e) ==
    {"id", "title", "description", "uploaded_at"}
       \cup (IF e.url # Absent THEN {"url"} ELSE {})
       \cup (IF e.filename # Absent THEN {"filename"} ELSE {})

\* C12: an entry of a listing has the fields that the cloud variant gives
\* the entry of the same row (the variants answer with the same fields).
C12_SameResponseFields ==
    \A l \in Lists : \A i \in 1..Len(req[l].result) :
        EntryFields(req[l].result[i]) = EntryFields(WithUrl(req[l].result[i]))

\* C13: once a delete of id i was answered 200 the table has no row i, and
\* no listing that returns afterwards has an entry with id i.
C13_DeletedIdNeverListed ==
    [][/\ \A d \in Deletes :
             req'[d].status = 200 => req'[d].target \notin {x.id : x \in rows'}
       /\ \A l \in Lists :
             (req[l].pc = "list" /\ req'[l].status = 200) =>
                \A d \in Deletes :
                   req[d].status = 200 =>
                      \A i \in 1..Len(req'[l].result) :
                         req'[l].result[i].id # req[d].target]_vars

\* row 1 was inserted, a delete of 1 was answered 200, a listing returned
\* without it and a later row is in the table
C13_Witness ==
    \E d \in Deletes : \E l \in Lists : \E u \in Uploads :
        /\ req[d].status = 200 /\ req[u].id = req[d].target
        /\ d < l /\ req[l].status = 200
        /\ \A i \in 1..Len(req[l].result) : req[l].result[i].id # req[d].target

\* C14: a delete that is waiting for its DELETE statement, or that was
\* answered 200, has had the answer (success or error) of its blob delete.
C14_BlobDeleteBeforeRowDelete ==
    \A d \in Deletes :
        (req[d].pc = "rowdel" \/ req[d].status = 200) =>
           req[d].blobDel \in {"ok", "fail"}

\* C15: when the INSERT of an upload fails the upload is answered 500, the
\* blob it has put is still stored under its key, and no row has that key.
C15_InsertFailureLeavesBlob ==
    [][\A u \in Uploads :
          (req[u].pc = "insert" /\ req'[u].pc = "done" /\ req'[u].status # 200) =>
             /\ req'[u].status = 500
             /\ rows' = rows /\ blobs' = blobs
             /\ <<req[u].key, u>> \in blobs'
             /\ \A x \in rows' : x.filename # req[u].key]_vars

\* the rows of table tbl whose object key has no blob in store
Orphans(tbl, store) == {x \in tbl : x.filename \notin {b[1] : b \in store}}

\* C16 as stated: a row without blob appears only in a step in which a
\* delete whose blob delete has failed runs its DELETE statement.
C16_OnlyFailedBlobDelete ==
    [][Orphans(rows', blobs') \ Orphans(rows, blobs) # {} =>
          \E d \in Deletes :
             req[d].blobDel = "fail" /\ req[d].pc = "rowdel" /\ Stepped(d)]_vars

\* C16 amended: a row without blob appears only in a step in which the blob
\* delete of a delete request succeeds while a row still has that key, or,
\* in the local-disk variant, in which an upload's INSERT adds a row whose
\* key has been unlinked already.
C16_OnlyBlobDeleteSuccess ==
    [][Orphans(rows', blobs') \ Orphans(rows, blobs) # {} =>
          \/ \E d \in Deletes :
                /\ req[d].blobDel # "ok" /\ req'[d].blobDel = "ok"
                /\ \E x \in rows : x.filename = req[d].key
                /\ rows' = rows
          \/ /\ variant = "local"
             /\ \E u \in Uploads :
                   /\ req[u].pc = "insert" /\ req'[u].status = 200
                   /\ req[u].key \notin BlobKeys
                   /\ blobs' = blobs]_vars

\* cloud: a delete removed the blob, its DELETE statement failed, and the
\* row is left without blob
C16_Witness ==
    /\ variant = "cloud"
    /\ \E d \in Deletes :
          /\ req[d].blobDel = "ok" /\ req[d].status = 500
          /\ \E x \in Orphans(rows, blobs) : x.id = req[d].target

\* C17: no step of a delete of id A takes away the row of another id B or
\* the blob that the row of another id B has as its object key.
C17_DeleteLeavesOtherIds ==
    [][\A d \in Deletes :
          Stepped(d) =>
             \A x \in rows :
                x.id # req[d].target =>
                   /\ x \in rows'
                   /\ x.filename \in BlobKeys =>
                        x.filename \in {b[1] : b \in blobs'}]_vars

\* the callback that request r is waiting for
HandlerStep(r) ==
    \/ UploadHandlerCloud(r) \/ S3UploadCallback(r) \/ UploadHandlerLocal(r)
    \/ InsertCallback(r) \/ ListCallback(r) \/ LookupCallback(r)
    \/ S3DeleteCallback(r) \/ RowDeleteCallback(r)

\* how far a request is from its answer
StepsLeft(pc) ==
    CASE pc = "done" -> 0
      [] pc \in {"insert", "list", "rowdel"} -> 1
      [] pc \in {"put", "blobdel"} -> 2
      [] pc \in {"multer", "lookup"} -> 3

\* C18: no request has been sent two responses; a request has been sent
\* its one response exactly when it is finished; a request that is not
\* finished has a callback to come, and every callback of a request brings
\* it nearer to its response.
C18_AnsweredExactlyOnce ==
    /\ [](\A r \in Reqs :
             /\ req[r].sent <= 1
             /\ req[r].sent = 1 <=> req[r].pc = "done"
             /\ req[r].sent = 1 <=> req[r].status # 0
             /\ req[r].pc # "done" => ENABLED HandlerStep(r))
    /\ [][\A r \in Reqs :
             req'[r].pc # req[r].pc =>
                StepsLeft(req'[r].pc) < StepsLeft(req[r].pc)]_vars

\* an upload, a listing and a delete were each sent their one response, the
\* upload after its blob was put and its INSERT failed
C18_Witness ==
    /\ \E u \in Uploads : req[u].sent = 1 /\ req[u].put = "ok" /\ req[u].status = 500
    /\ \E l \in Lists : req[l].sent = 1 /\ req[l].status = 200
    /\ \E d \in Deletes : req[d].sent = 1 /\ req[d].status = 404

\* C19: a request answered 403 is finished on arrival: it never puts or
\* deletes a blob, never gets a key or an id, and neither its arrival nor
\* any later step of it changes a store.
C19_RejectedChangesNothing ==
    [][\A r \in 1..Len(req') :
          req'[r].status = 403 =>
             /\ req'[r].pc = "done" /\ req'[r].sent = 1
             /\ req'[r].put = "none" /\ req'[r].blobDel = "none"
             /\ req'[r].key = NoKey /\ req'[r].id = 0
             /\ (r \notin Reqs \/ Stepped(r)) =>
                  /\ rows' = rows /\ blobs' = blobs
                  /\ nextId' = nextId /\ nextUuid' = nextUuid]_vars

\* production: an upload with a file and a delete were both refused
\* while the stores hold nothing of them
C19_Witness ==
    /\ production
    /\ \E u \in Uploads : req[u].file # NoFile /\ req[u].status = 403
    /\ \E d \in Deletes : req[d].status = 403
    /\ rows = {} /\ blobs = {}

====
